---- MODULE Spec2Model ----
(***************************************************************************)
(* A model of the groundwater-contaminant dataset tools:                   *)
(*   - sample_sparse_data            (DatasetWithAdepy/sample.py)          *)
(*   - create_contamination_scenario (DatasetWithAdepy/simulate.py)        *)
(*   - run_all_single_source_scenarios (simulation.py)                     *)
(*                                                                         *)
(* TLA+ strings are ASCII, so the file-name parts of the source are        *)
(* written "GlobalConc_" (the input prefix), "SparseObs_" (the output      *)
(* prefix) and "d.csv" (the day suffix).  A file name is the sequence of   *)
(* its characters.                                                         *)
(***************************************************************************)
EXTENDS Integers, Sequences, FiniteSets, TLC

(***************************************************************************)
(* Bounds of the model.                                                    *)
(***************************************************************************)
MaxRows == 2
MaxFiles == 2
MaxNum == 2
MaxUniformRows == 3

XCoords == {0, 1}
YCoords == {0, 1}
Concs == {0, 1}
\* the threshold of the filter: with concentrations 0 and 1 the threshold 1
\* both keeps rows (1 >= 1) and drops rows (0 < 1)
MinConcs == {1}
\* sample_ratio as an exact fraction <<numerator, denominator>>; 1/100 is the
\* default of the signature, the others are exact binary fractions.
Ratios == {<<1, 100>>, <<1, 2>>, <<1, 1>>, <<2, 1>>}
Strategies == {"lhs", "random", "uniform", "kmeans"}
\* offsets of a Latin-hypercube point inside its stratum, in halves
Offsets == {0, 1}

\* sample_num = None
None == -1

VARIABLES
    \* ---- sample_sparse_data ----
    sample_strategy, sample_ratio, sample_num, min_concentration,
    input_csv_dir,    \* names of the snapshot files in the input directory
    csv_files,        \* the snapshot names, sorted by time
    output_dir,       \* TRUE once output_sparse_dir has been created
    pc,               \* "init", "loop", "sample", "done", "raised"
    raised,           \* "none" or the name of the exception that ended the call
    idx,              \* position of the loop in csv_files (1-based)
    df, df_valid, n_sample, unique_indices, final_indices, df_sample,
    last,             \* what the last iteration did: "none","skip","read","write","error"
    bbox,             \* the locals x_min, x_max, y_min, y_max, and whether bound
    written,          \* names of the output files written by this invocation
    nread,            \* number of snapshots read by this invocation
    skipped,          \* names of the snapshots skipped by this invocation
    invocation, invocations,  \* the running invocation, and how many are made
    snapshots,        \* contents of the snapshots, kept for a later invocation
    outputs,          \* contents of the output files, kept likewise
    first_outputs,    \* the output files as the first invocation left them
    \* ---- create_contamination_scenario ----
    sources, c0_list, Qa_list, obs_times,   \* the arguments
    obs_float,        \* for each observation time, whether it is a float
                      \* (1.0) rather than an int (1)
    sc_pc,            \* "idle","validate","mkdirs","params","compute","scale",
                      \* "save","summary","done","raised"
    sc_raised,        \* "none" or the name of the exception that ended the call
    fs_dirs,          \* directories created
    fs_files,         \* files written: kind, time, and the field of a CSV
    all_concentrations,  \* the fields computed so far, one per observation time
    max_conc,         \* ten times max_conc (the 1.1 factor kept exact)
    t_idx,            \* position of the running loop in obs_times (1-based)
    point2_calls,     \* the evaluations of the external point2, in order
    stdout,           \* the encoding of the standard output print() writes to
    \* ---- run_all_single_source_scenarios ----
    b_pc,             \* "idle","scenarios","comparative","report","returned"
    b_i,              \* position of the loop in the scenarios dict (1-based)
    results,          \* the results dict: list of <<key, value>> in insertion order
    attempts,         \* names of the scenario functions called, in order
    outcomes,         \* how each of these calls ended: "ok" or str(e)
    comparative_runs, \* number of calls of comparative_analysis
    report            \* the keys generate_summary_report wrote a section for,
                      \* <<"-">> before the report is written

svars == <<sample_strategy, sample_ratio, sample_num, min_concentration,
           input_csv_dir, csv_files, output_dir, pc, raised, idx, df, df_valid, n_sample,
           unique_indices, final_indices, df_sample, last, bbox, written,
           nread, skipped, invocation, invocations, snapshots, outputs, first_outputs>>

scvars == <<sources, c0_list, Qa_list, obs_times, obs_float, sc_pc, sc_raised, fs_dirs,
            fs_files, all_concentrations, max_conc, t_idx, point2_calls, stdout>>

bvars == <<b_pc, b_i, results, attempts, outcomes, comparative_runs, report>>

vars == <<svars, scvars, bvars>>

(***************************************************************************)
(* Helpers                                                                 *)
(***************************************************************************)
Min(a, b) == IF a <= b THEN a ELSE b
Max(a, b) == IF a >= b THEN a ELSE b
Range(s) == {s[i] : i \in DOMAIN s}
IsInjective(s) == \A i, j \in DOMAIN s : i # j => s[i] # s[j]
\* the sequences of k distinct elements of S
Arrangements(S, k) == {s \in [1..k -> S] : IsInjective(s)}

RECURSIVE SortedSeq(_)
\* the elements of a finite set of integers in ascending order
SortedSeq(S) ==
    IF S = {} THEN <<>>
    ELSE LET m == CHOOSE a \in S : \A b \in S : a <= b
         IN <<m>> \o SortedSeq(S \ {m})

RECURSIVE Unique(_)
\* pandas Series.unique(): the distinct values in order of first appearance
Unique(s) ==
    IF s = <<>> THEN <<>>
    ELSE LET h == s[Len(s)]
             r == Unique(SubSeq(s, 1, Len(s) - 1))
         IN IF h \in Range(r) THEN r ELSE Append(r, h)

(***************************************************************************)
(* Snapshot tables: rows (X, Y, concentration), one row per grid point.    *)
(***************************************************************************)
Rows == [x : XCoords, y : YCoords, c : Concs]
\* a table lists its grid points in the order the generator writes them
\* (the flattened meshgrid: Y outer, X inner); grid points may be absent
TablesUpTo(m) ==
    {t \in UNION {[1..k -> Rows] : k \in 0..m} :
        \A i, j \in DOMAIN t :
            i < j => \/ t[i].y < t[j].y
                     \/ t[i].y = t[j].y /\ t[i].x < t[j].x}
Tables == TablesUpTo(MaxRows)

\* str() of a non-negative int: its decimal digits
DigitChars == <<"0", "1", "2", "3", "4", "5", "6", "7", "8", "9">>
RECURSIVE Digits(_)
Digits(n) ==
    IF n < 10 THEN <<DigitChars[n + 1]>>
    ELSE Digits(n \div 10) \o <<DigitChars[(n % 10) + 1]>>

\* str() of an int
IntStr(n) == IF n < 0 THEN <<"-">> \o Digits(-n) ELSE Digits(n)

\* f"{t}" for an observation time: "1" for the int 1, "1.0" for the float 1.0
FormatTime(t, is_float) ==
    IF is_float THEN IntStr(t) \o <<".", "0">> ELSE IntStr(t)

\* A character outside printable ASCII is written by its code point, "U+0009"
\* for the tab.  The decimal digits of Unicode, one row per script, each row
\* from zero to nine: the characters int() reads as a digit
DecimalDigits ==
    <<
       <<"0", "1", "2", "3", "4", "5", "6", "7", "8", "9">>,
       <<"U+0660", "U+0661", "U+0662", "U+0663", "U+0664", "U+0665", "U+0666", "U+0667", "U+0668", "U+0669">>,
       <<"U+06F0", "U+06F1", "U+06F2", "U+06F3", "U+06F4", "U+06F5", "U+06F6", "U+06F7", "U+06F8", "U+06F9">>,
       <<"U+07C0", "U+07C1", "U+07C2", "U+07C3", "U+07C4", "U+07C5", "U+07C6", "U+07C7", "U+07C8", "U+07C9">>,
       <<"U+0966", "U+0967", "U+0968", "U+0969", "U+096A", "U+096B", "U+096C", "U+096D", "U+096E", "U+096F">>,
       <<"U+09E6", "U+09E7", "U+09E8", "U+09E9", "U+09EA", "U+09EB", "U+09EC", "U+09ED", "U+09EE", "U+09EF">>,
       <<"U+0A66", "U+0A67", "U+0A68", "U+0A69", "U+0A6A", "U+0A6B", "U+0A6C", "U+0A6D", "U+0A6E", "U+0A6F">>,
       <<"U+0AE6", "U+0AE7", "U+0AE8", "U+0AE9", "U+0AEA", "U+0AEB", "U+0AEC", "U+0AED", "U+0AEE", "U+0AEF">>,
       <<"U+0B66", "U+0B67", "U+0B68", "U+0B69", "U+0B6A", "U+0B6B", "U+0B6C", "U+0B6D", "U+0B6E", "U+0B6F">>,
       <<"U+0BE6", "U+0BE7", "U+0BE8", "U+0BE9", "U+0BEA", "U+0BEB", "U+0BEC", "U+0BED", "U+0BEE", "U+0BEF">>,
       <<"U+0C66", "U+0C67", "U+0C68", "U+0C69", "U+0C6A", "U+0C6B", "U+0C6C", "U+0C6D", "U+0C6E", "U+0C6F">>,
       <<"U+0CE6", "U+0CE7", "U+0CE8", "U+0CE9", "U+0CEA", "U+0CEB", "U+0CEC", "U+0CED", "U+0CEE", "U+0CEF">>,
       <<"U+0D66", "U+0D67", "U+0D68", "U+0D69", "U+0D6A", "U+0D6B", "U+0D6C", "U+0D6D", "U+0D6E", "U+0D6F">>,
       <<"U+0DE6", "U+0DE7", "U+0DE8", "U+0DE9", "U+0DEA", "U+0DEB", "U+0DEC", "U+0DED", "U+0DEE", "U+0DEF">>,
       <<"U+0E50", "U+0E51", "U+0E52", "U+0E53", "U+0E54", "U+0E55", "U+0E56", "U+0E57", "U+0E58", "U+0E59">>,
       <<"U+0ED0", "U+0ED1", "U+0ED2", "U+0ED3", "U+0ED4", "U+0ED5", "U+0ED6", "U+0ED7", "U+0ED8", "U+0ED9">>,
       <<"U+0F20", "U+0F21", "U+0F22", "U+0F23", "U+0F24", "U+0F25", "U+0F26", "U+0F27", "U+0F28", "U+0F29">>,
       <<"U+1040", "U+1041", "U+1042", "U+1043", "U+1044", "U+1045", "U+1046", "U+1047", "U+1048", "U+1049">>,
       <<"U+1090", "U+1091", "U+1092", "U+1093", "U+1094", "U+1095", "U+1096", "U+1097", "U+1098", "U+1099">>,
       <<"U+17E0", "U+17E1", "U+17E2", "U+17E3", "U+17E4", "U+17E5", "U+17E6", "U+17E7", "U+17E8", "U+17E9">>,
       <<"U+1810", "U+1811", "U+1812", "U+1813", "U+1814", "U+1815", "U+1816", "U+1817", "U+1818", "U+1819">>,
       <<"U+1946", "U+1947", "U+1948", "U+1949", "U+194A", "U+194B", "U+194C", "U+194D", "U+194E", "U+194F">>,
       <<"U+19D0", "U+19D1", "U+19D2", "U+19D3", "U+19D4", "U+19D5", "U+19D6", "U+19D7", "U+19D8", "U+19D9">>,
       <<"U+1A80", "U+1A81", "U+1A82", "U+1A83", "U+1A84", "U+1A85", "U+1A86", "U+1A87", "U+1A88", "U+1A89">>,
       <<"U+1A90", "U+1A91", "U+1A92", "U+1A93", "U+1A94", "U+1A95", "U+1A96", "U+1A97", "U+1A98", "U+1A99">>,
       <<"U+1B50", "U+1B51", "U+1B52", "U+1B53", "U+1B54", "U+1B55", "U+1B56", "U+1B57", "U+1B58", "U+1B59">>,
       <<"U+1BB0", "U+1BB1", "U+1BB2", "U+1BB3", "U+1BB4", "U+1BB5", "U+1BB6", "U+1BB7", "U+1BB8", "U+1BB9">>,
       <<"U+1C40", "U+1C41", "U+1C42", "U+1C43", "U+1C44", "U+1C45", "U+1C46", "U+1C47", "U+1C48", "U+1C49">>,
       <<"U+1C50", "U+1C51", "U+1C52", "U+1C53", "U+1C54", "U+1C55", "U+1C56", "U+1C57", "U+1C58", "U+1C59">>,
       <<"U+A620", "U+A621", "U+A622", "U+A623", "U+A624", "U+A625", "U+A626", "U+A627", "U+A628", "U+A629">>,
       <<"U+A8D0", "U+A8D1", "U+A8D2", "U+A8D3", "U+A8D4", "U+A8D5", "U+A8D6", "U+A8D7", "U+A8D8", "U+A8D9">>,
       <<"U+A900", "U+A901", "U+A902", "U+A903", "U+A904", "U+A905", "U+A906", "U+A907", "U+A908", "U+A909">>,
       <<"U+A9D0", "U+A9D1", "U+A9D2", "U+A9D3", "U+A9D4", "U+A9D5", "U+A9D6", "U+A9D7", "U+A9D8", "U+A9D9">>,
       <<"U+A9F0", "U+A9F1", "U+A9F2", "U+A9F3", "U+A9F4", "U+A9F5", "U+A9F6", "U+A9F7", "U+A9F8", "U+A9F9">>,
       <<"U+AA50", "U+AA51", "U+AA52", "U+AA53", "U+AA54", "U+AA55", "U+AA56", "U+AA57", "U+AA58", "U+AA59">>,
       <<"U+ABF0", "U+ABF1", "U+ABF2", "U+ABF3", "U+ABF4", "U+ABF5", "U+ABF6", "U+ABF7", "U+ABF8", "U+ABF9">>,
       <<"U+FF10", "U+FF11", "U+FF12", "U+FF13", "U+FF14", "U+FF15", "U+FF16", "U+FF17", "U+FF18", "U+FF19">>,
       <<"U+104A0", "U+104A1", "U+104A2", "U+104A3", "U+104A4", "U+104A5", "U+104A6", "U+104A7", "U+104A8", "U+104A9">>,
       <<"U+10D30", "U+10D31", "U+10D32", "U+10D33", "U+10D34", "U+10D35", "U+10D36", "U+10D37", "U+10D38", "U+10D39">>,
       <<"U+11066", "U+11067", "U+11068", "U+11069", "U+1106A", "U+1106B", "U+1106C", "U+1106D", "U+1106E", "U+1106F">>,
       <<"U+110F0", "U+110F1", "U+110F2", "U+110F3", "U+110F4", "U+110F5", "U+110F6", "U+110F7", "U+110F8", "U+110F9">>,
       <<"U+11136", "U+11137", "U+11138", "U+11139", "U+1113A", "U+1113B", "U+1113C", "U+1113D", "U+1113E", "U+1113F">>,
       <<"U+111D0", "U+111D1", "U+111D2", "U+111D3", "U+111D4", "U+111D5", "U+111D6", "U+111D7", "U+111D8", "U+111D9">>,
       <<"U+112F0", "U+112F1", "U+112F2", "U+112F3", "U+112F4", "U+112F5", "U+112F6", "U+112F7", "U+112F8", "U+112F9">>,
       <<"U+11450", "U+11451", "U+11452", "U+11453", "U+11454", "U+11455", "U+11456", "U+11457", "U+11458", "U+11459">>,
       <<"U+114D0", "U+114D1", "U+114D2", "U+114D3", "U+114D4", "U+114D5", "U+114D6", "U+114D7", "U+114D8", "U+114D9">>,
       <<"U+11650", "U+11651", "U+11652", "U+11653", "U+11654", "U+11655", "U+11656", "U+11657", "U+11658", "U+11659">>,
       <<"U+116C0", "U+116C1", "U+116C2", "U+116C3", "U+116C4", "U+116C5", "U+116C6", "U+116C7", "U+116C8", "U+116C9">>,
       <<"U+11730", "U+11731", "U+11732", "U+11733", "U+11734", "U+11735", "U+11736", "U+11737", "U+11738", "U+11739">>,
       <<"U+118E0", "U+118E1", "U+118E2", "U+118E3", "U+118E4", "U+118E5", "U+118E6", "U+118E7", "U+118E8", "U+118E9">>,
       <<"U+11950", "U+11951", "U+11952", "U+11953", "U+11954", "U+11955", "U+11956", "U+11957", "U+11958", "U+11959">>,
       <<"U+11C50", "U+11C51", "U+11C52", "U+11C53", "U+11C54", "U+11C55", "U+11C56", "U+11C57", "U+11C58", "U+11C59">>,
       <<"U+11D50", "U+11D51", "U+11D52", "U+11D53", "U+11D54", "U+11D55", "U+11D56", "U+11D57", "U+11D58", "U+11D59">>,
       <<"U+11DA0", "U+11DA1", "U+11DA2", "U+11DA3", "U+11DA4", "U+11DA5", "U+11DA6", "U+11DA7", "U+11DA8", "U+11DA9">>,
       <<"U+16A60", "U+16A61", "U+16A62", "U+16A63", "U+16A64", "U+16A65", "U+16A66", "U+16A67", "U+16A68", "U+16A69">>,
       <<"U+16AC0", "U+16AC1", "U+16AC2", "U+16AC3", "U+16AC4", "U+16AC5", "U+16AC6", "U+16AC7", "U+16AC8", "U+16AC9">>,
       <<"U+16B50", "U+16B51", "U+16B52", "U+16B53", "U+16B54", "U+16B55", "U+16B56", "U+16B57", "U+16B58", "U+16B59">>,
       <<"U+1D7CE", "U+1D7CF", "U+1D7D0", "U+1D7D1", "U+1D7D2", "U+1D7D3", "U+1D7D4", "U+1D7D5", "U+1D7D6", "U+1D7D7">>,
       <<"U+1D7D8", "U+1D7D9", "U+1D7DA", "U+1D7DB", "U+1D7DC", "U+1D7DD", "U+1D7DE", "U+1D7DF", "U+1D7E0", "U+1D7E1">>,
       <<"U+1D7E2", "U+1D7E3", "U+1D7E4", "U+1D7E5", "U+1D7E6", "U+1D7E7", "U+1D7E8", "U+1D7E9", "U+1D7EA", "U+1D7EB">>,
       <<"U+1D7EC", "U+1D7ED", "U+1D7EE", "U+1D7EF", "U+1D7F0", "U+1D7F1", "U+1D7F2", "U+1D7F3", "U+1D7F4", "U+1D7F5">>,
       <<"U+1D7F6", "U+1D7F7", "U+1D7F8", "U+1D7F9", "U+1D7FA", "U+1D7FB", "U+1D7FC", "U+1D7FD", "U+1D7FE", "U+1D7FF">>,
       <<"U+1E140", "U+1E141", "U+1E142", "U+1E143", "U+1E144", "U+1E145", "U+1E146", "U+1E147", "U+1E148", "U+1E149">>,
       <<"U+1E2F0", "U+1E2F1", "U+1E2F2", "U+1E2F3", "U+1E2F4", "U+1E2F5", "U+1E2F6", "U+1E2F7", "U+1E2F8", "U+1E2F9">>,
       <<"U+1E950", "U+1E951", "U+1E952", "U+1E953", "U+1E954", "U+1E955", "U+1E956", "U+1E957", "U+1E958", "U+1E959">>,
       <<"U+1FBF0", "U+1FBF1", "U+1FBF2", "U+1FBF3", "U+1FBF4", "U+1FBF5", "U+1FBF6", "U+1FBF7", "U+1FBF8", "U+1FBF9">>
    >>
IsDecimal(ch) == \E r \in DOMAIN DecimalDigits : ch \in Range(DecimalDigits[r])
DigitValue(ch) ==
    CHOOSE d \in 0..9 : \E r \in DOMAIN DecimalDigits : DecimalDigits[r][d + 1] = ch
RECURSIVE DigitsValue(_)
DigitsValue(chars) ==
    IF Len(chars) = 0 THEN 0
    ELSE 10 * DigitsValue(SubSeq(chars, 1, Len(chars) - 1)) + DigitValue(chars[Len(chars)])

\* the blanks int() drops around the text: the ASCII blanks and the Unicode
\* spaces and line separators
Blanks ==
    {"U+0009", "U+000A", "U+000B", "U+000C", "U+000D", " ",
     "U+0085", "U+00A0", "U+1680", "U+2000", "U+2001", "U+2002",
     "U+2003", "U+2004", "U+2005", "U+2006", "U+2007", "U+2008",
     "U+2009", "U+200A", "U+2028", "U+2029", "U+202F", "U+205F",
     "U+3000"}
RECURSIVE LStrip(_)
LStrip(chars) ==
    IF Len(chars) >= 1 /\ chars[1] \in Blanks THEN LStrip(Tail(chars)) ELSE chars
RECURSIVE RStrip(_)
RStrip(chars) ==
    IF Len(chars) >= 1 /\ chars[Len(chars)] \in Blanks
    THEN RStrip(SubSeq(chars, 1, Len(chars) - 1)) ELSE chars

\* int(text): blanks around the text are dropped, one sign may lead, the
\* rest is a non-empty string of decimal digits of any script; ValueError
\* otherwise.  (int() also allows single underscores between digits; the
\* text here is a field of split("_") and holds none.)
ParseInt(chars) ==
    LET text == RStrip(LStrip(chars))
        signed == Len(text) >= 1 /\ text[1] \in {"+", "-"}
        body == IF signed THEN Tail(text) ELSE text
    IN IF Len(body) >= 1 /\ \A i \in 1..Len(body) : IsDecimal(body[i])
       THEN [ok |-> TRUE,
             value |-> IF signed /\ text[1] = "-" THEN 0 - DigitsValue(body)
                       ELSE DigitsValue(body)]
       ELSE [ok |-> FALSE, value |-> 0]

InputPrefix == <<"G", "l", "o", "b", "a", "l", "C", "o", "n", "c", "_">>
OutputPrefix == <<"S", "p", "a", "r", "s", "e", "O", "b", "s", "_">>
DaySuffix == <<"d", ".", "c", "s", "v">>
CsvExtension == <<".", "c", "s", "v">>
\* the name the generator gives the snapshot of time t: the prefix with its
\* one underscore, the formatted time, the day suffix
CsvName(t, is_float) == InputPrefix \o FormatTime(t, is_float) \o DaySuffix
\* the name of the snapshot of an int time
InName(t) == CsvName(t, FALSE)

\* str.startswith
StartsWith(chars, head) ==
    Len(chars) >= Len(head) /\ SubSeq(chars, 1, Len(head)) = head

\* str.endswith
EndsWith(chars, tail) ==
    /\ Len(chars) >= Len(tail)
    /\ SubSeq(chars, Len(chars) - Len(tail) + 1, Len(chars)) = tail

\* f.startswith(prefix) and f.endswith(".csv")
NameFilter(name) == StartsWith(name, InputPrefix) /\ EndsWith(name, CsvExtension)

RECURSIVE AfterUnderscore(_)
\* the characters after the first underscore; a listed name has one, the
\* underscore of the prefix
AfterUnderscore(chars) ==
    IF Len(chars) = 0 THEN <<>>
    ELSE IF chars[1] = "_" THEN Tail(chars)
    ELSE AfterUnderscore(Tail(chars))

RECURSIVE BeforeUnderscore(_)
\* the characters up to the first underscore, or all of them
BeforeUnderscore(chars) ==
    IF Len(chars) = 0 \/ chars[1] = "_" THEN <<>>
    ELSE <<chars[1]>> \o BeforeUnderscore(Tail(chars))

\* x.split("_")[1]
SecondField(name) == BeforeUnderscore(AfterUnderscore(name))

RECURSIVE Remove(_, _)
\* str.replace(pat, ""): every occurrence of pat is removed, left to right
Remove(chars, pat) ==
    IF Len(chars) < Len(pat) THEN chars
    ELSE IF SubSeq(chars, 1, Len(pat)) = pat
    THEN Remove(SubSeq(chars, Len(pat) + 1, Len(chars)), pat)
    ELSE <<chars[1]>> \o Remove(Tail(chars), pat)

\* the sort key: int(x.split("_")[1].replace("d.csv", ""))
SortKey(name) == ParseInt(Remove(SecondField(name), DaySuffix))
\* f"SparseObs_{csv_file.replace('GlobalConc_', '')}": every occurrence of
\* the input prefix is removed from the name and the output prefix put in
\* front
OutName(csv_file) == OutputPrefix \o Remove(csv_file, InputPrefix)

\* df[df[conc] >= min_concentration].reset_index(drop=True)
Filter(t, minc) == SelectSeq(t, LAMBDA r : r.c >= minc)

\* mutant: the ratio is used although a fixed count is given
TargetCountRatioOnly(num, ratio, V) == Max(1, (V * ratio[1]) \div ratio[2])

\* step 2 of the loop body: the target count
TargetCount(num, ratio, V) ==
    IF num # None THEN Min(num, V)
    ELSE Max(1, (V * ratio[1]) \div ratio[2])

\* DataFrame.iloc[indices] for 0-based positions
ILoc(t, indices) == [k \in 1..Len(indices) |-> t[indices[k] + 1]]

BBox(t) ==
    [x_min |-> CHOOSE a \in {t[i].x : i \in DOMAIN t} : \A i \in DOMAIN t : a <= t[i].x,
     x_max |-> CHOOSE a \in {t[i].x : i \in DOMAIN t} : \A i \in DOMAIN t : a >= t[i].x,
     y_min |-> CHOOSE a \in {t[i].y : i \in DOMAIN t} : \A i \in DOMAIN t : a <= t[i].y,
     y_max |-> CHOOSE a \in {t[i].y : i \in DOMAIN t} : \A i \in DOMAIN t : a >= t[i].y]

\* csv_files.sort(key=...) for names whose keys all parse: the sort is
\* stable, so names of equal key stay in the order os.listdir gave them,
\* which is arbitrary; the orders the call can end with
SortByTime(S) ==
    {s \in Arrangements(S, Cardinality(S)) :
        \A i, j \in 1..Len(s) : i < j => SortKey(s[i]).value <= SortKey(s[j]).value}

\* the sort evaluates the key of every name and raises on the first that
\* does not parse
SortRaises(S) == \E a \in S : ~SortKey(a).ok

(***************************************************************************)
(* Latin-hypercube branch                                                  *)
(***************************************************************************)
\* LatinHypercube(d=2, seed=42).random(n): point j is (perm - u) / n in each
\* dimension, perm a permutation of 1..n and u in [0,1).  The generator
\* stream is not modelled: a draw is any one-to-one pairing of the x strata
\* with the y strata, with an offset (in halves) in each dimension.
\* a point in x stratum a and y stratum b, with offsets ux and uy, mapped
\* into the bounding box; coordinates scaled by 2n
LhsPoint(a, b, ux, uy, n, bb) ==
    [sx |-> 2 * n * bb.x_min + (2 * a - ux) * (bb.x_max - bb.x_min),
     sy |-> 2 * n * bb.y_min + (2 * b - uy) * (bb.y_max - bb.y_min)]

\* squared Euclidean distance from row r to point p, scaled by (2n)^2
Dist2(r, p, n) ==
    (2 * n * r.x - p.sx) * (2 * n * r.x - p.sx)
    + (2 * n * r.y - p.sy) * (2 * n * r.y - p.sy)

\* KDTree(valid_coords).query(point): the 0-based positions of the rows at
\* least distance; which of several rows at the same distance is returned
\* is left open
Nearest(valid, p, n) ==
    {i \in 0..(Len(valid) - 1) :
        \A k \in 1..Len(valid) : Dist2(valid[i + 1], p, n) <= Dist2(valid[k], p, n)}

RECURSIVE MatchSets(_, _, _, _, _)
\* the draws restricted to the points of x strata 1..a, each given as
\* <<the y strata it uses, the set of positions it matches>>;
\* NN[a, b, ux, uy] is the result of Nearest for the point of strata (a, b)
MatchSets(NN, n, ux, uy, a) ==
    IF a = 0 THEN {<<{}, {}>>}
    ELSE UNION {UNION {{<<um[1] \cup {b}, um[2] \cup {i}>> : i \in NN[a, b, ux, uy]} :
                       b \in (1..n) \ um[1]} :
                um \in MatchSets(NN, n, ux, uy, a - 1)}

\* np.unique(indices), indices given by the set of its values
NpUnique(matched) == SortedSeq(matched)

\* the possible values of unique_indices over the draws
LhsUnique(valid, n) ==
    LET bb == BBox(valid)
        NN == [a \in 1..n, b \in 1..n, ux \in Offsets, uy \in Offsets |->
                  Nearest(valid, LhsPoint(a, b, ux, uy, n, bb), n)]
    IN {NpUnique(um[2]) :
           um \in UNION {MatchSets(NN, n, ux, uy, n) : ux \in Offsets, uy \in Offsets}}

\* mutant: the backfill pool does not leave out the matched positions
PoolOfAll(V, unique) == SortedSeq(0..(V - 1))

\* [i for i in range(len(df_valid)) if i not in unique_indices]
Pool(V, unique) == SortedSeq({i \in 0..(V - 1) : i \notin Range(unique)})

\* np.random.choice(pool, size=remaining, replace=False) raises when the
\* pool is too small
ChoiceRaises(pool, remaining) == remaining > Len(pool)

\* the possible values of final_indices, given unique_indices
FinalIndices(V, unique, n) ==
    IF Len(unique) < n
    THEN {unique \o s : s \in Arrangements(Range(Pool(V, unique)), n - Len(unique))}
    ELSE {SubSeq(unique, 1, n)}

\* mutant: the final positions are looked up in the table as read
LhsRowsOfDf(t, valid, final) == ILoc(t, final)

\* df_sample = df_valid.iloc[final_indices].reset_index(drop=True): the
\* rows are those of the filtered table, whatever the table read holds
LhsRows(t, valid, final) == ILoc(valid, final)

(***************************************************************************)
(* Random branch                                                           *)
(***************************************************************************)
\* np.random.RandomState(42).permutation(V), V = 1..6 (Mersenne twister
\* seeded with 42, Fisher-Yates shuffle from the last position down)
Perm42 == << <<0>>, <<1, 0>>, <<0, 1, 2>>, <<1, 3, 0, 2>>, <<1, 4, 2, 0, 3>>,
             <<0, 1, 5, 2, 4, 3>> >>

\* mutant: the sample takes one row more than asked for
RandomIndicesOneMore(V, n) == SubSeq(Perm42[V], 1, Min(n + 1, V))

\* df_valid.sample(n=n_sample, random_state=42): positions of the sample
RandomIndices(V, n) == IF n = 0 THEN <<>> ELSE SubSeq(Perm42[V], 1, n)

(***************************************************************************)
(* Uniform branch                                                          *)
(***************************************************************************)
\* int(np.sqrt(n))
ISqrt(n) == CHOOSE r \in 0..n : r * r <= n /\ (r + 1) * (r + 1) > n

\* pd.cut(values, bins=k, labels=False): k equal-width right-closed bins over
\* [mn, mx]; a constant column is put in the middle of a widened range
BinOf(v, mn, mx, k) ==
    IF mn = mx THEN (k - 1) \div 2
    ELSE CHOOSE b \in 0..(k - 1) :
            /\ k * (v - mn) <= (b + 1) * (mx - mn)
            /\ \A b2 \in 0..(b - 1) : k * (v - mn) > (b2 + 1) * (mx - mn)

XBins(valid, k) ==
    LET bb == BBox(valid) IN [i \in 1..Len(valid) |-> BinOf(valid[i].x, bb.x_min, bb.x_max, k)]
YBins(valid, k) ==
    LET bb == BBox(valid) IN [i \in 1..Len(valid) |-> BinOf(valid[i].y, bb.y_min, bb.y_max, k)]

\* mutant: the loops are nested the other way round, y bins outside
CellsYMajor(valid, k) ==
    LET xbs == Unique(XBins(valid, k))
        ybs == Unique(YBins(valid, k))
    IN [c \in 1..(Len(xbs) * Len(ybs)) |->
           <<xbs[((c - 1) % Len(xbs)) + 1], ybs[((c - 1) \div Len(xbs)) + 1]>>]

\* the cells in the order the two loops visit them: every y bin of an x bin
\* before the next x bin, bins in order of first appearance
Cells(valid, k) ==
    LET xbs == Unique(XBins(valid, k))
        ybs == Unique(YBins(valid, k))
    IN [c \in 1..(Len(xbs) * Len(ybs)) |->
           <<xbs[((c - 1) \div Len(ybs)) + 1], ybs[((c - 1) % Len(ybs)) + 1]>>]

\* 0-based positions of the rows of a cell (bin_df)
CellRows(valid, k, cell) ==
    {i \in 0..(Len(valid) - 1) :
        XBins(valid, k)[i + 1] = cell[1] /\ YBins(valid, k)[i + 1] = cell[2]}

RECURSIVE UniformUpTo(_, _, _, _)
\* the possible lists of picked positions after visiting the first c cells:
\* bin_df.sample(1) draws from the unseeded global generator, so any row of
\* a non-empty cell; both loops stop once n rows are picked
UniformUpTo(valid, k, n, c) ==
    IF c = 0 THEN {<<>>}
    ELSE LET prev == UniformUpTo(valid, k, n, c - 1)
             rows == CellRows(valid, k, Cells(valid, k)[c])
         IN UNION {IF Len(s) >= n \/ rows = {} THEN {s}
                   ELSE {Append(s, i) : i \in rows} : s \in prev}

UniformIndices(valid, n) ==
    LET k == ISqrt(n) IN UniformUpTo(valid, k, n, Len(Cells(valid, k)))

(***************************************************************************)
(* sample_sparse_data: one invocation is Start, then one step per loop     *)
(* iteration (a skip, or one of the strategy branches followed by the      *)
(* write and the diagnostics), then Finish.                                *)
(***************************************************************************)
Unbound == [bound |-> FALSE, x_min |-> 0, x_max |-> 0, y_min |-> 0, y_max |-> 0]
Bound(bb) == [bound |-> TRUE, x_min |-> bb.x_min, x_max |-> bb.x_max,
              y_min |-> bb.y_min, y_max |-> bb.y_max]
NoTable == <<>>

\* other files in the input directory: a copy without the day character, a
\* backup, an output of the sampler, a plot, and snapshots whose time is
\* written with a leading zero, with a sign, with a tab and a fullwidth
\* digit, with the prefix a second time
ForeignNames ==
    {InputPrefix \o <<"1">> \o CsvExtension,
     InputPrefix \o <<"b", "a", "k">> \o CsvExtension,
     OutputPrefix \o <<"1">> \o DaySuffix,
     InputPrefix \o <<"1", "d", ".", "p", "n", "g">>,
     InputPrefix \o <<"0", "1">> \o DaySuffix,
     InputPrefix \o <<"-", "1">> \o DaySuffix,
     InputPrefix \o <<"U+0009", "U+FF12">> \o DaySuffix,
     InputPrefix \o <<"1", "_">> \o InputPrefix \o DaySuffix}

SamplerConfigs ==
    /\ sample_strategy \in Strategies
    /\ min_concentration \in MinConcs
    /\ \/ sample_num = None /\ sample_ratio \in Ratios
       \/ sample_num \in 0..MaxNum /\ sample_ratio = <<1, 100>>
    /\ \E k \in 0..MaxFiles :
          \/ input_csv_dir = {InName(t) : t \in 1..k}
          \/ /\ k <= 1
             /\ \E f \in ForeignNames : input_csv_dir = {InName(t) : t \in 1..k} \cup {f}

SamplerLocals ==
    /\ csv_files = <<>>
    /\ output_dir = FALSE
    /\ raised = "none"
    /\ idx = 0
    /\ df = NoTable /\ df_valid = NoTable /\ df_sample = NoTable
    /\ n_sample = 0 /\ unique_indices = <<>> /\ final_indices = <<>>
    /\ last = "none"
    /\ bbox = Unbound
    /\ written = {}
    /\ nread = 0 /\ skipped = {}
    /\ invocation = 1
    /\ snapshots = <<>>
    /\ outputs = <<>>
    /\ first_outputs = <<>>

SamplerEntry == SamplerLocals /\ pc = "init"

\* the sampler is not called
SamplerIdle ==
    /\ sample_strategy = "lhs" /\ sample_ratio = <<1, 100>> /\ sample_num = None
    /\ min_concentration = 0 /\ input_csv_dir = {}
    /\ SamplerLocals /\ pc = "idle" /\ invocations = 1

\* os.makedirs, os.listdir with the name filter, sort by time
Start ==
    /\ pc = "init"
    /\ output_dir' = TRUE
    /\ LET listed == {f \in input_csv_dir : NameFilter(f)}
       IN IF SortRaises(listed)
          THEN csv_files' = <<>> /\ pc' = "raised" /\ raised' = "ValueError"
          ELSE /\ \E sorted \in SortByTime(listed) : csv_files' = sorted
               /\ pc' = "loop" /\ raised' = "none"
    /\ idx' = 1
    /\ UNCHANGED <<sample_strategy, sample_ratio, sample_num, min_concentration,
                   input_csv_dir, df, df_valid, n_sample, unique_indices,
                   final_indices, df_sample, last, bbox, written, nread, skipped,
                   invocation, invocations, snapshots, outputs, first_outputs,
                   scvars, bvars>>

InLoop == pc = "loop" /\ idx <= Len(csv_files)

\* pd.read_csv: the content of snapshot idx; a snapshot read by an earlier
\* invocation still has the content it had then.  A snapshot that is alone
\* in its directory may hold every grid point, one of several at most
\* MaxRows of them
RECURSIVE FlattenField(_, _)
\* the rows of a written field, Y outer and X inner as the flattened meshgrid
FlattenField(field, G) ==
    IF G = {} THEN <<>>
    ELSE LET g == CHOOSE a \in G : \A b \in G :
                      a[2] < b[2] \/ (a[2] = b[2] /\ a[1] <= b[1])
         IN <<[x |-> g[1], y |-> g[2], c |-> field[g]]>> \o FlattenField(field, G \ {g})

\* the snapshots the generator left on disk under a name
OnDisk(name) == {f \in fs_files : f.kind = "csv" /\ f.name = name}

ReadCsv ==
    IF idx <= Len(snapshots) THEN {snapshots[idx]}
    ELSE IF OnDisk(csv_files[idx]) # {}
    THEN {FlattenField(f.field, DOMAIN f.field) : f \in OnDisk(csv_files[idx])}
    ELSE IF Len(csv_files) = 1 THEN TablesUpTo(Cardinality(XCoords \X YCoords))
    ELSE Tables

\* steps 1 and 2 of the loop body: read, filter, and either skip the
\* snapshot (continue) or fix the target count and go on to the strategy.
\* Only df, df_valid and, unless the snapshot is skipped, n_sample are
\* assigned: the other locals keep the values of the previous iteration.
ReadAndFilter ==
    /\ InLoop
    /\ \E t \in ReadCsv :
        LET valid == Filter(t, min_concentration)
        IN /\ df' = t
           /\ df_valid' = valid
           /\ nread' = nread + 1
           /\ snapshots' = IF invocation < invocations /\ idx > Len(snapshots)
                           THEN Append(snapshots, t) ELSE snapshots
           /\ IF Len(valid) = 0
              THEN /\ n_sample' = n_sample
                   /\ last' = "skip"
                   /\ skipped' = skipped \cup {csv_files[idx]}
                   /\ idx' = idx + 1
                   /\ pc' = "loop"
              ELSE /\ n_sample' = TargetCount(sample_num, sample_ratio, Len(valid))
                   /\ last' = "read"
                   /\ skipped' = skipped
                   /\ idx' = idx
                   /\ pc' = "sample"
    /\ UNCHANGED <<sample_strategy, sample_ratio, sample_num, min_concentration,
                   input_csv_dir, csv_files, output_dir, raised, bbox, written,
                   unique_indices, final_indices, df_sample,
                   invocation, invocations, outputs, first_outputs, scvars, bvars>>

\* what the strategy step leaves unchanged
SampleFrame ==
    UNCHANGED <<sample_strategy, sample_ratio, sample_num, min_concentration,
                input_csv_dir, csv_files, output_dir, df, df_valid, n_sample,
                nread, skipped, invocation, invocations, snapshots, first_outputs,
                scvars, bvars>>

\* the branch raised: the exception leaves the loop and the function
Raise(exc) ==
    /\ pc' = "raised"
    /\ raised' = exc
    /\ last' = "error"
    /\ UNCHANGED <<idx, written, outputs, df_sample>>

\* step 4 and the diagnostics: df_sample.to_csv, then the three prints, the
\* last of which reads x_min, x_max, y_min, y_max
WriteAndPrint(sample, bb) ==
    /\ df_sample' = sample
    /\ written' = written \cup {OutName(csv_files[idx])}
    /\ outputs' = IF invocations > 1
                  THEN [f \in DOMAIN outputs \cup {OutName(csv_files[idx])} |->
                           IF f = OutName(csv_files[idx]) THEN sample ELSE outputs[f]]
                  ELSE outputs
    /\ last' = "write"
    /\ IF bb.bound
       THEN pc' = "loop" /\ raised' = "none" /\ idx' = idx + 1
       ELSE pc' = "raised" /\ raised' = "UnboundLocalError" /\ idx' = idx

SampleLhs ==
    /\ pc = "sample"
    /\ sample_strategy = "lhs"
    /\ SampleFrame
    /\ bbox' = Bound(BBox(df_valid))
    /\ \E unique \in LhsUnique(df_valid, n_sample) :
        /\ unique_indices' = unique
        /\ IF /\ Len(unique) < n_sample
              /\ ChoiceRaises(Pool(Len(df_valid), unique), n_sample - Len(unique))
           THEN /\ final_indices' = final_indices
                /\ Raise("ValueError")
           ELSE \E final \in FinalIndices(Len(df_valid), unique, n_sample) :
                  /\ final_indices' = final
                  /\ WriteAndPrint(LhsRows(df, df_valid, final), Bound(BBox(df_valid)))

SampleRandom ==
    /\ pc = "sample"
    /\ sample_strategy = "random"
    /\ SampleFrame
    /\ UNCHANGED <<bbox, unique_indices, final_indices>>
    /\ IF n_sample > Len(df_valid)
       THEN Raise("ValueError")
       ELSE WriteAndPrint(ILoc(df_valid, RandomIndices(Len(df_valid), n_sample)), bbox)

SampleUniform ==
    /\ pc = "sample"
    /\ sample_strategy = "uniform"
    /\ SampleFrame
    /\ UNCHANGED <<bbox, unique_indices, final_indices>>
    /\ IF ISqrt(n_sample) < 1
       THEN Raise("ValueError")
       ELSE \E picked \in UniformIndices(df_valid, n_sample) :
              WriteAndPrint(ILoc(df_valid, picked), bbox)

\* else: raise ValueError
UnknownStrategy ==
    /\ pc = "sample"
    /\ sample_strategy \notin {"lhs", "random", "uniform"}
    /\ SampleFrame
    /\ UNCHANGED <<bbox, unique_indices, final_indices>>
    /\ Raise("ValueError")

\* the loop is exhausted: the function returns
Finish ==
    /\ pc = "loop"
    /\ idx > Len(csv_files)
    /\ pc' = "done"
    /\ UNCHANGED <<sample_strategy, sample_ratio, sample_num, min_concentration,
                   input_csv_dir, csv_files, output_dir, raised, idx, df, df_valid,
                   n_sample, unique_indices, final_indices, df_sample, last, bbox,
                   written, nread, skipped, invocation, invocations, snapshots,
                   outputs, first_outputs, scvars, bvars>>

\* the caller invokes the function again, same arguments, same directory
Reinvoke ==
    /\ pc \in {"done", "raised"}
    /\ invocation < invocations
    /\ invocation' = invocation + 1
    /\ first_outputs' = outputs
    /\ outputs' = <<>>
    /\ csv_files' = <<>>
    /\ pc' = "init"
    /\ raised' = "none"
    /\ idx' = 0
    /\ df' = NoTable /\ df_valid' = NoTable /\ df_sample' = NoTable
    /\ n_sample' = 0 /\ unique_indices' = <<>> /\ final_indices' = <<>>
    /\ last' = "none"
    /\ bbox' = Unbound
    /\ written' = {}
    /\ nread' = 0 /\ skipped' = {}
    /\ UNCHANGED <<sample_strategy, sample_ratio, sample_num, min_concentration,
                   input_csv_dir, output_dir, invocations, snapshots, scvars, bvars>>

(***************************************************************************)
(* run_all_single_source_scenarios                                         *)
(***************************************************************************)
\* the keys of the scenarios dict, in insertion order, and the key of the
\* comparative analysis
\* print(text) encodes the text for the standard output and raises
\* UnicodeEncodeError on a character the encoding lacks.  Of the characters
\* the three programs print, the check mark, the cross mark and the
\* superscript two are not in gbk; the sampler prints none of them.
Encodings == {"utf-8", "gbk"}
CheckMark == "U+2713"
CrossMark == "U+2717"
SuperscriptTwo == "U+00B2"
NotInGbk == {CheckMark, CrossMark, SuperscriptTwo}
Encodes(enc, ch) == enc = "utf-8" \/ ch \notin NotInGbk

ScenarioNames == <<"scenario1", "scenario2", "scenario3", "scenario4", "scenario5">>
ComparativeKey == "comparative"
\* str(e) of the exceptions a call may raise that are Exceptions
Messages == {"e1", "e2"}
\* exceptions a call may raise that are not Exceptions
BaseExceptions == {"KeyboardInterrupt"}
Outcomes == {"ok"} \cup Messages \cup BaseExceptions

DictKeys(d) == [i \in 1..Len(d) |-> d[i][1]]
DictHas(d, k) == \E i \in 1..Len(d) : d[i][1] = k
DictGet(d, k) == d[CHOOSE i \in 1..Len(d) : d[i][1] = k][2]
\* d[k] = v
DictSet(d, k, v) ==
    IF DictHas(d, k) THEN [i \in 1..Len(d) |-> IF d[i][1] = k THEN <<k, v>> ELSE d[i]]
    ELSE Append(d, <<k, v>>)

Value(kind, text) == [kind |-> kind, text |-> text]

\* the handler of a scenario: print of the cross mark, then results[name] =
\* {error: str(e)}; a print that raises leaves the function
ExceptScenario(d, name, message, enc) ==
    IF Encodes(enc, CrossMark)
    THEN [results |-> DictSet(d, name, Value("error", message)), goes_on |-> TRUE]
    ELSE [results |-> d, goes_on |-> FALSE]

\* the body of the for loop for one scenario: try: results[name] =
\* scenario_func(); print of the check mark  except Exception as e: the
\* handler; gives the dict and whether the loop goes on
TryScenario(d, name, outcome, enc) ==
    IF outcome \in BaseExceptions
    THEN [results |-> d, goes_on |-> FALSE]
    ELSE IF outcome = "ok"
    THEN LET stored == DictSet(d, name, Value("result", name))
         IN IF Encodes(enc, CheckMark)
            THEN [results |-> stored, goes_on |-> TRUE]
            ELSE ExceptScenario(stored, name, "UnicodeEncodeError", enc)
    ELSE ExceptScenario(d, name, outcome, enc)

\* try: results[comparative] = {file: comparative_analysis()}; print of the
\* check mark  except Exception as e: print of the cross mark
TryComparative(d, outcome, enc) ==
    IF outcome \in BaseExceptions
    THEN [results |-> d, goes_on |-> FALSE]
    ELSE IF outcome = "ok"
    THEN LET stored == DictSet(d, ComparativeKey, Value("file", "png"))
         IN [results |-> stored,
             goes_on |-> Encodes(enc, CheckMark) \/ Encodes(enc, CrossMark)]
    ELSE [results |-> d, goes_on |-> Encodes(enc, CrossMark)]

BatchIdle ==
    /\ b_pc = "idle" /\ b_i = 0 /\ results = <<>> /\ attempts = <<>> /\ outcomes = <<>>
    /\ comparative_runs = 0 /\ report = <<"-">>

RunScenario ==
    /\ b_pc = "scenarios"
    /\ b_i <= Len(ScenarioNames)
    /\ \E outcome \in Outcomes :
        LET r == TryScenario(results, ScenarioNames[b_i], outcome, stdout)
        IN /\ results' = r.results
           /\ outcomes' = Append(outcomes, outcome)
           /\ b_pc' = IF ~r.goes_on THEN "raised"
                      ELSE IF b_i = Len(ScenarioNames) THEN "comparative"
                      ELSE "scenarios"
    /\ attempts' = Append(attempts, ScenarioNames[b_i])
    /\ b_i' = b_i + 1
    /\ UNCHANGED <<comparative_runs, report, svars, scvars>>

Comparative ==
    /\ b_pc = "comparative"
    /\ \E outcome \in Outcomes :
        LET r == TryComparative(results, outcome, stdout)
        IN /\ results' = r.results
           /\ b_pc' = IF r.goes_on THEN "report" ELSE "raised"
    /\ comparative_runs' = comparative_runs + 1
    /\ UNCHANGED <<b_i, attempts, outcomes, report, svars, scvars>>

\* generate_summary_report(results): a section per key but the comparative
\* one; then return results
SummaryReport ==
    /\ b_pc = "report"
    /\ report' = SelectSeq(DictKeys(results), LAMBDA k : k # ComparativeKey)
    /\ b_pc' = "returned"
    /\ UNCHANGED <<b_i, results, attempts, outcomes, comparative_runs, svars, scvars>>

(***************************************************************************)
(* create_contamination_scenario                                           *)
(***************************************************************************)
MaxSources == 2
SourceCoords == {<<0, 0>>, <<1, 1>>}
C0Values == {1, 2}
QaValues == {1, 3}
ObsTimeLists == {<<>>, <<0>>, <<1>>, <<0, 1>>, <<0, 2, 1>>, <<10, 2>>}
\* the grid points of np.meshgrid(np.linspace(..), np.linspace(..)) for a
\* 2 x 2 grid, as <<x, y>>
Grid == {<<0, 0>>, <<1, 0>>, <<0, 1>>, <<1, 1>>}

SeqsUpTo(S, k) == UNION {[1..m -> S] : m \in 0..k}
Abs(a) == IF a < 0 THEN -a ELSE a

\* the external adepy.uniform.point2 with the scenario's v, al, ah, n: a
\* pure function of the point, the time and the source.  Its numerics are
\* outside the repository; the stand-in is positive, strictly increasing in
\* c0 and in Qa, so that a swapped or repeated source shows, and it is not
\* taken to vanish at t = 0, which the library does not promise.
point2(x, y, t, xc, yc, Qa, c0) ==
    c0 * Qa * (t + 1) * (3 - Abs(x - xc) - Abs(y - yc))

ZeroField == [g \in Grid |-> 0]

RECURSIVE SuperposeFirstC0(_, _, _, _, _)
\* mutant: every source is evaluated with the first source's concentration
SuperposeFirstC0(srcs, c0s, qas, t, i) ==
    IF i = 0 THEN ZeroField
    ELSE LET prev == SuperposeFirstC0(srcs, c0s, qas, t, i - 1)
         IN [g \in Grid |->
                prev[g] + point2(g[1], g[2], t, srcs[i][1], srcs[i][2], qas[i], c0s[1])]

RECURSIVE Superpose(_, _, _, _, _)
\* total_conc after the sources 1..i have been added, at time t
Superpose(srcs, c0s, qas, t, i) ==
    IF i = 0 THEN ZeroField
    ELSE LET prev == Superpose(srcs, c0s, qas, t, i - 1)
         IN [g \in Grid |->
                prev[g] + point2(g[1], g[2], t, srcs[i][1], srcs[i][2], qas[i], c0s[i])]

\* zip(sources, c0_list, Qa_list) stops at the shortest list
ZipLen(srcs, c0s, qas) == Min(Len(srcs), Min(Len(c0s), Len(qas)))

\* mutant: time zero goes through the superposition like any other time
TotalConcNoZeroCase(srcs, c0s, qas, t) ==
    [field |-> Superpose(srcs, c0s, qas, t, ZipLen(srcs, c0s, qas)),
     calls |-> [i \in 1..ZipLen(srcs, c0s, qas) |-> <<t, i>>]]

\* the body of the pre-computation loop for one time: the field appended to
\* all_concentrations and the point2 evaluations made, as <<time, source>>
TotalConc(srcs, c0s, qas, t) ==
    IF t = 0
    THEN [field |-> ZeroField, calls |-> <<>>]
    ELSE [field |-> Superpose(srcs, c0s, qas, t, ZipLen(srcs, c0s, qas)),
          calls |-> [i \in 1..ZipLen(srcs, c0s, qas) |-> <<t, i>>]]

FieldMax(f) == CHOOSE m \in {f[g] : g \in Grid} : \A g \in Grid : f[g] <= m

ScenarioArgs ==
    /\ sources \in SeqsUpTo(SourceCoords, MaxSources)
    /\ c0_list \in SeqsUpTo(C0Values, MaxSources)
    /\ Qa_list \in SeqsUpTo(QaValues, MaxSources)
    /\ obs_times \in ObsTimeLists
    /\ obs_float \in [1..Len(obs_times) -> BOOLEAN]

ScenarioLocals ==
    /\ sc_raised = "none"
    /\ fs_dirs = {}
    /\ fs_files = {}
    /\ all_concentrations = <<>>
    /\ max_conc = 0
    /\ t_idx = 0
    /\ point2_calls = <<>>

ScenarioIdle ==
    /\ sources = <<>> /\ c0_list = <<>> /\ Qa_list = <<>> /\ obs_times = <<>>
    /\ obs_float = <<>>
    /\ ScenarioLocals /\ sc_pc = "idle"

ScUnchangedArgs ==
    UNCHANGED <<sources, c0_list, Qa_list, obs_times, obs_float, stdout, svars, bvars>>

\* mutant: only the concentration list is checked
LengthsMismatchC0Only == Len(c0_list) # Len(sources)

\* the two length checks at the head of the function
LengthsMismatch == Len(c0_list) # Len(sources) \/ Len(Qa_list) # Len(sources)

Validate ==
    /\ sc_pc = "validate"
    /\ IF LengthsMismatch
       THEN sc_pc' = "raised" /\ sc_raised' = "ValueError"
       ELSE sc_pc' = "mkdirs" /\ sc_raised' = "none"
    /\ ScUnchangedArgs
    /\ UNCHANGED <<fs_dirs, fs_files, all_concentrations, max_conc, t_idx, point2_calls>>

\* 1. os.makedirs(CSV_DIR), os.makedirs(PLOT_DIR)
MakeDirs ==
    /\ sc_pc = "mkdirs"
    /\ fs_dirs' = fs_dirs \cup {"SCENE_ROOT", "SCENE_ROOT/csv_results", "SCENE_ROOT/plot_results"}
    /\ sc_pc' = "params"
    /\ ScUnchangedArgs
    /\ UNCHANGED <<sc_raised, fs_files, all_concentrations, max_conc, t_idx, point2_calls>>

PlotName(t, is_float) ==
    <<"p", "l", "o", "t", "_">> \o FormatTime(t, is_float) \o <<"d", ".", "p", "n", "g">>
OtherName(text) == <<text>>
File(kind, name, time, field) == [kind |-> kind, name |-> name, time |-> time, field |-> field]

\* 2. the parameter log; 3. plot settings, grid and pore velocity
WriteParams ==
    /\ sc_pc = "params"
    /\ fs_files' = fs_files \cup {File("params", OtherName("params.txt"), -1, ZeroField)}
    /\ sc_pc' = "compute"
    /\ t_idx' = 1
    /\ ScUnchangedArgs
    /\ UNCHANGED <<sc_raised, fs_dirs, all_concentrations, max_conc, point2_calls>>

\* 4. one iteration of the pre-computation loop over obs_times
ComputeField ==
    /\ sc_pc = "compute"
    /\ t_idx <= Len(obs_times)
    /\ LET total == TotalConc(sources, c0_list, Qa_list, obs_times[t_idx])
       IN /\ all_concentrations' = Append(all_concentrations, total.field)
          /\ point2_calls' = point2_calls \o total.calls
    /\ t_idx' = t_idx + 1
    /\ ScUnchangedArgs
    /\ UNCHANGED <<sc_pc, sc_raised, fs_dirs, fs_files, max_conc>>

\* max_conc = np.max([np.max(conc) ...]) * 1.1; np.max of an empty list raises
ColorScale ==
    /\ sc_pc = "compute"
    /\ t_idx > Len(obs_times)
    /\ IF Len(obs_times) = 0
       THEN sc_pc' = "raised" /\ sc_raised' = "ValueError" /\ max_conc' = max_conc
       ELSE /\ max_conc' = 11 * (CHOOSE m \in {FieldMax(all_concentrations[i]) : i \in 1..Len(all_concentrations)} :
                                    \A i \in 1..Len(all_concentrations) : FieldMax(all_concentrations[i]) <= m)
            /\ sc_pc' = "save" /\ sc_raised' = "none"
    /\ t_idx' = 1
    /\ ScUnchangedArgs
    /\ UNCHANGED <<fs_dirs, fs_files, all_concentrations, point2_calls>>

\* 5. one iteration of the save loop: the CSV, then the contour plot;
\* contourf rejects the levels np.linspace(0, 0, 50) of an all-zero scenario
SaveSnapshot ==
    /\ sc_pc = "save"
    /\ t_idx <= Len(obs_times)
    /\ LET t == obs_times[t_idx]
           csv == File("csv", CsvName(t, obs_float[t_idx]), t, all_concentrations[t_idx])
       IN IF max_conc = 0
          THEN /\ fs_files' = fs_files \cup {csv}
               /\ sc_pc' = "raised" /\ sc_raised' = "ValueError"
               /\ t_idx' = t_idx
          ELSE /\ fs_files' = fs_files \cup {csv, File("png", PlotName(t, obs_float[t_idx]), t, ZeroField)}
               /\ sc_pc' = "save" /\ sc_raised' = "none"
               /\ t_idx' = t_idx + 1
    /\ ScUnchangedArgs
    /\ UNCHANGED <<fs_dirs, all_concentrations, max_conc, point2_calls>>

\* 6. the time-series plot; 7. the closing prints
SaveSummary ==
    /\ sc_pc = "save"
    /\ t_idx > Len(obs_times)
    /\ fs_files' = fs_files \cup {File("summary_png", OtherName("summary.png"), -1, ZeroField)}
    /\ IF Encodes(stdout, SuperscriptTwo)
       THEN sc_pc' = "done" /\ sc_raised' = sc_raised
       ELSE sc_pc' = "raised" /\ sc_raised' = "UnicodeEncodeError"
    /\ ScUnchangedArgs
    /\ UNCHANGED <<fs_dirs, all_concentrations, max_conc, t_idx, point2_calls>>

InitScenario ==
    /\ ScenarioArgs /\ ScenarioLocals /\ sc_pc = "validate"
    /\ stdout \in Encodings
    /\ SamplerIdle /\ BatchIdle

NextScenario ==
    \/ Validate
    \/ MakeDirs
    \/ WriteParams
    \/ ComputeField
    \/ ColorScale
    \/ SaveSnapshot
    \/ SaveSummary

SpecScenario == InitScenario /\ [][NextScenario]_vars

\* the uniform branch on its own: the sampler has read and filtered its only
\* snapshot, a table of up to MaxUniformRows grid points, and fixed the count
InitUniform ==
    /\ sample_strategy = "uniform"
    /\ min_concentration \in MinConcs
    /\ \/ sample_num = None /\ sample_ratio \in Ratios
       \/ sample_num \in 0..MaxNum /\ sample_ratio = <<1, 100>>
    /\ input_csv_dir = {InName(1)}
    /\ csv_files \in SortByTime(input_csv_dir)
    /\ output_dir = TRUE
    /\ raised = "none"
    /\ idx = 1
    /\ df \in TablesUpTo(MaxUniformRows)
    /\ df_valid = Filter(df, min_concentration)
    /\ Len(df_valid) >= 1
    /\ n_sample = TargetCount(sample_num, sample_ratio, Len(df_valid))
    /\ df_sample = NoTable /\ unique_indices = <<>> /\ final_indices = <<>>
    /\ last = "read"
    /\ bbox = Unbound
    /\ written = {}
    /\ nread = 1 /\ skipped = {}
    /\ invocation = 1 /\ invocations = 1
    /\ snapshots = <<>> /\ outputs = <<>> /\ first_outputs = <<>>
    /\ pc = "sample"
    /\ stdout = "utf-8"
    /\ ScenarioIdle /\ BatchIdle

NextUniform == SampleUniform

SpecUniform == InitUniform /\ [][NextUniform]_vars

\* the two stages run one after the other as in the two __main__ blocks: a
\* single-source scenario is generated, then the sampler is called on its
\* csv_results directory with lhs, a ratio of 1% and a threshold of 0.  The
\* generator has returned or has raised; the directory exists either way
SampleScenarioOutput ==
    /\ sc_pc \in {"done", "raised"}
    /\ "SCENE_ROOT/csv_results" \in fs_dirs
    /\ pc = "idle"
    /\ input_csv_dir' = {f.name : f \in {g \in fs_files : g.kind = "csv"}}
    /\ sample_strategy' = "lhs"
    /\ sample_ratio' = <<1, 100>>
    /\ sample_num' = None
    /\ min_concentration' = 0
    /\ pc' = "init"
    /\ UNCHANGED <<csv_files, output_dir, raised, idx, df, df_valid, n_sample,
                   unique_indices, final_indices, df_sample, last, bbox, written,
                   nread, skipped, invocation, invocations, snapshots, outputs,
                   first_outputs, scvars, bvars>>

InitPipeline ==
    /\ ScenarioArgs /\ Len(sources) = 1 /\ ~LengthsMismatch
    /\ ScenarioLocals /\ sc_pc = "validate"
    /\ stdout \in Encodings
    /\ SamplerIdle /\ BatchIdle

NextPipeline ==
    \/ Validate
    \/ MakeDirs
    \/ WriteParams
    \/ ComputeField
    \/ ColorScale
    \/ SaveSnapshot
    \/ SaveSummary
    \/ SampleScenarioOutput
    \/ Start
    \/ ReadAndFilter
    \/ SampleLhs
    \/ Finish

SpecPipeline == InitPipeline /\ [][NextPipeline]_vars

\* the prints of sample_sparse_data hold only characters both encodings
\* have, so the sampler alone is run on one of them
Init ==
    /\ SamplerConfigs /\ SamplerEntry /\ invocations = 1
    /\ stdout = "utf-8"
    /\ ScenarioIdle /\ BatchIdle

Next ==
    \/ Start
    \/ ReadAndFilter
    \/ SampleLhs
    \/ SampleRandom
    \/ SampleUniform
    \/ UnknownStrategy
    \/ Finish

Spec == Init /\ [][Next]_vars

\* two invocations on the same directory, under the seeded-by-intent policies
InitTwice ==
    /\ SamplerConfigs /\ SamplerEntry /\ invocations = 2
    /\ sample_strategy \in {"random", "uniform"}
    /\ Cardinality(input_csv_dir) <= 1
    /\ stdout = "utf-8"
    /\ ScenarioIdle /\ BatchIdle

NextTwice ==
    \/ Start
    \/ ReadAndFilter
    \/ SampleRandom
    \/ SampleUniform
    \/ Finish
    \/ Reinvoke

SpecTwice == InitTwice /\ [][NextTwice]_vars

InitBatch ==
    /\ b_pc = "scenarios" /\ b_i = 1 /\ results = <<>> /\ attempts = <<>> /\ outcomes = <<>>
    /\ comparative_runs = 0 /\ report = <<"-">>
    /\ stdout \in Encodings
    /\ SamplerIdle /\ ScenarioIdle

NextBatch ==
    \/ RunScenario
    \/ Comparative
    \/ SummaryReport

SpecBatch == InitBatch /\ [][NextBatch]_vars

(***************************************************************************)
(* The claims                                                              *)
(***************************************************************************)
KnownStrategies == {"lhs", "random", "uniform"}
Ended == pc \in {"done", "raised"}
\* the configurations whose target count lies between 1 and the number of
\* valid rows of every snapshot
PlainConfig ==
    IF sample_num = None THEN sample_ratio[1] <= sample_ratio[2] ELSE sample_num >= 1

\* the input directory holds snapshot files only, each named as the generator
\* names the snapshot of an int time
SnapshotDirectory ==
    \A f \in input_csv_dir :
        /\ Len(f) > Len(InputPrefix) + Len(DaySuffix)
        /\ StartsWith(f, InputPrefix) /\ EndsWith(f, DaySuffix)
        /\ LET time == SubSeq(f, Len(InputPrefix) + 1, Len(f) - Len(DaySuffix))
           IN ParseInt(time).ok /\ IntStr(ParseInt(time).value) = time

\* C1 (as claimed): under lhs, random and uniform alike, an invocation over a
\* directory whose snapshots all keep a valid row ends by returning, having
\* written one output per input snapshot, named by swapping the prefix.
\* Stated on the plain configurations; violated by the code.
C1_EveryStrategyCompletes ==
    (sample_strategy \in KnownStrategies /\ PlainConfig /\ SnapshotDirectory
        /\ Ended /\ skipped = {})
        => /\ pc = "done"
           /\ written = {OutName(f) : f \in input_csv_dir}

\* C2: every output table written has at most n_sample rows and at most as
\* many rows as there are valid rows.
C2_OutputRowsBounded ==
    last = "write" => Len(df_sample) <= n_sample /\ Len(df_sample) <= Len(df_valid)

\* a table was written with fewer rows than the valid rows of its snapshot
C2_Witness ==
    /\ last = "write" /\ Len(df_sample) >= 1
    /\ Len(df_sample) = n_sample /\ Len(df_sample) < Len(df_valid)

\* C3 (as claimed): every output table written under lhs, random or uniform
\* has n_sample rows, or all the valid rows when there are fewer than
\* n_sample.  Violated by the code.
C3_OutputRowsEqualTarget ==
    (last = "write" /\ sample_strategy \in KnownStrategies)
        => Len(df_sample) = Min(n_sample, Len(df_valid))

\* C4: every row of every output table written is a row of the snapshot read
\* whose concentration is at least min_concentration.
C4_OutputRowsAreValidRows ==
    last = "write" =>
        \A k \in 1..Len(df_sample) :
            /\ df_sample[k] \in Range(df)
            /\ df_sample[k].c >= min_concentration

\* a table written under lhs from a snapshot that lost a row to the filter,
\* the last row of the table a backfilled one
C4_Witness ==
    /\ last = "write" /\ sample_strategy = "lhs"
    /\ Len(final_indices) > Len(unique_indices)
    /\ Len(df_sample) = Len(final_indices)
    /\ \E k \in 1..Len(df) : df[k].c < min_concentration

\* C5: under lhs the final indices an output table is built from are
\* positions of valid rows of its snapshot and none occurs twice.
C5_LhsIndicesValidAndDistinct ==
    (sample_strategy = "lhs" /\ last = "write") =>
        /\ \A k \in 1..Len(final_indices) : final_indices[k] \in 0..(Len(df_valid) - 1)
        /\ IsInjective(final_indices)

\* final indices made of matched positions and two backfilled positions
C5_Witness ==
    /\ last = "write" /\ sample_strategy = "lhs"
    /\ Len(unique_indices) >= 1
    /\ Len(final_indices) >= Len(unique_indices) + 2

\* C6 (as claimed): under random and under uniform, a second invocation on
\* the same directory with the same configuration writes the same tables
\* as the first.  Violated by the code.
C6_RepeatedInvocationSameOutput ==
    (invocation = 2 /\ Ended) => outputs = first_outputs

\* C7 (as claimed): with a strategy name other than lhs, random, uniform the
\* call raises before any snapshot is read and writes nothing.  Violated by
\* the code.
C7_UnknownStrategyFailsFast ==
    sample_strategy \notin KnownStrategies
        => /\ nread = 0
           /\ written = {}
           /\ pc # "done"
           /\ (pc = "raised" => raised = "ValueError")

\* C8: when c0_list or Qa_list differs in length from sources, the call ends
\* in a ValueError with no directory created, no file written, no field
\* computed and point2 never evaluated.
C8_MismatchRaisesBeforeAnyEffect ==
    (Len(c0_list) # Len(sources) \/ Len(Qa_list) # Len(sources)) =>
        /\ sc_pc \in {"validate", "raised"}
        /\ (sc_pc = "raised" => sc_raised = "ValueError")
        /\ fs_dirs = {} /\ fs_files = {}
        /\ all_concentrations = <<>> /\ point2_calls = <<>>

\* the call has raised on an injection-rate list of the wrong length
C8_Witness ==
    /\ sc_pc = "raised" /\ sc_raised = "ValueError"
    /\ Len(c0_list) = Len(sources) /\ Len(Qa_list) # Len(sources)

\* C9 (as claimed): once a snapshot without valid rows is met, no output is
\* written for it, the call raises no error and it ends only after having
\* read every snapshot.  Stated for the three strategies on the plain
\* configurations; violated by the code.
C9_SkipThenProcessTheRest ==
    (skipped # {} /\ sample_strategy \in KnownStrategies /\ PlainConfig)
        => /\ \A f \in skipped : OutName(f) \notin written
           /\ raised = "none"
           /\ (Ended => nread = Len(csv_files))

\* C10 (as claimed): the five scenarios are attempted once each, in order;
\* an exception of a scenario never leaves the loop and its message is stored
\* under the scenario's key; on return the comparative analysis has run
\* once, the report has a section for each of the five scenarios and results
\* holds an entry for each of them.  Violated by the code.
C10_BatchSurvivesScenarioFailures ==
    /\ b_pc # "raised"
    /\ Len(attempts) <= Len(ScenarioNames)
    /\ attempts = SubSeq(ScenarioNames, 1, Len(attempts))
    /\ \A i \in 1..Len(attempts) :
          /\ DictHas(results, attempts[i])
          /\ outcomes[i] # "ok" => DictGet(results, attempts[i]) = Value("error", outcomes[i])
    /\ b_pc \in {"comparative", "report", "returned"} => attempts = ScenarioNames
    /\ b_pc = "returned" =>
          /\ comparative_runs = 1
          /\ report = ScenarioNames
          /\ \A i \in 1..Len(ScenarioNames) : DictHas(results, ScenarioNames[i])

\* the csv snapshots on disk
CsvFiles == {f \in fs_files : f.kind = "csv"}

\* C11: the field stored and the snapshot written for an observation time 0
\* are zero at every grid point, whatever the sources are, and point2 is
\* never evaluated with time 0.
C11_TimeZeroFieldIsZero ==
    /\ \A j \in 1..Len(all_concentrations) :
          obs_times[j] = 0 => \A g \in Grid : all_concentrations[j][g] = 0
    /\ \A f \in CsvFiles : f.time = 0 => \A g \in Grid : f.field[g] = 0
    /\ \A c \in 1..Len(point2_calls) : point2_calls[c][1] # 0

\* a scenario with a source has run to the end and written the snapshot of
\* time 0 next to a snapshot of a later time
C11_Witness ==
    /\ sc_pc = "done" /\ Len(sources) >= 1
    /\ \E f \in CsvFiles : f.time = 0
    /\ \E f \in CsvFiles : f.time > 0 /\ \E g \in Grid : f.field[g] > 0

RECURSIVE SourceSum(_, _, _)
\* the sum of the point-source solutions of the sources in I at grid point g
\* and time t, each with its own coordinate, concentration and rate
SourceSum(g, t, I) ==
    IF I = {} THEN 0
    ELSE LET i == CHOOSE i \in I : TRUE
         IN point2(g[1], g[2], t, sources[i][1], sources[i][2], Qa_list[i], c0_list[i])
            + SourceSum(g, t, I \ {i})

\* C12: for every observation time t > 0 the field stored and written is, at
\* every grid point, the sum over all sources of point2 with the source's own
\* coordinate, c0 and Qa, and point2 is evaluated once per source for each
\* computation of that time.
C12_FieldIsSumOverSources ==
    /\ \A j \in 1..Len(all_concentrations) :
          obs_times[j] > 0 =>
              \A g \in Grid :
                  all_concentrations[j][g] = SourceSum(g, obs_times[j], 1..Len(sources))
    /\ \A f \in CsvFiles :
          f.time > 0 =>
              \A g \in Grid : f.field[g] = SourceSum(g, f.time, 1..Len(sources))
    /\ \A j \in 1..Len(all_concentrations) :
          obs_times[j] > 0 =>
              \A i \in 1..Len(sources) :
                  Cardinality({c \in 1..Len(point2_calls) : point2_calls[c] = <<obs_times[j], i>>})
                    = Cardinality({m \in 1..Len(all_concentrations) : obs_times[m] = obs_times[j]})

\* two sources with different concentrations and different rates, and the
\* snapshot of a time t > 0 is on disk
C12_Witness ==
    /\ sc_pc = "done" /\ Len(sources) = 2
    /\ c0_list[1] # c0_list[2] /\ Qa_list[1] # Qa_list[2] /\ sources[1] # sources[2]
    /\ \E f \in CsvFiles : f.time > 0

\* the target count was fixed for the snapshot just read and filtered
CountFixed == pc = "sample" /\ Len(df_valid) >= 1

\* n_sample is min(sample_num, V) when sample_num is given, else
\* max(1, floor(sample_ratio * V)), for V valid rows
CountAsSpecified ==
    LET V == Len(df_valid)
        p == V * sample_ratio[1]
        d == sample_ratio[2]
    IN IF sample_num # None
       THEN n_sample = (IF sample_num <= V THEN sample_num ELSE V)
       ELSE \E q \in 0..p :
               /\ q * d <= p /\ p < (q + 1) * d
               /\ n_sample = (IF q >= 1 THEN q ELSE 1)

\* C13 (as claimed): the target count follows the two formulas and lies
\* between 1 and the number of valid rows in both cases.  Violated by a fixed
\* count of 0 and by a ratio above 1.
C13_CountWithinOneAndValid ==
    CountFixed => /\ CountAsSpecified
                  /\ 1 <= n_sample /\ n_sample <= Len(df_valid)

\* C13 (amended): the target count follows the two formulas; it is at most
\* the number of valid rows when sample_num is given and at least 1 when it
\* is not; it lies between 1 and the number of valid rows when sample_num is
\* given and at least 1, or is not given and sample_ratio is at most 1.
C13_CountAmended ==
    CountFixed =>
        /\ CountAsSpecified
        /\ sample_num # None => n_sample <= Len(df_valid)
        /\ sample_num = None => n_sample >= 1
        /\ (\/ sample_num # None /\ sample_num >= 1
            \/ sample_num = None /\ sample_ratio[1] <= sample_ratio[2])
           => 1 <= n_sample /\ n_sample <= Len(df_valid)

\* a fixed count of 2 on two valid rows, where the default ratio alone would
\* have given 1
C13_Witness ==
    /\ CountFixed /\ sample_num = 2 /\ Len(df_valid) = 2 /\ n_sample = 2
    /\ sample_ratio = <<1, 100>>

\* a table has just been written by the uniform branch
UniformWrite == last = "write" /\ sample_strategy = "uniform"

\* the (x_bin, y_bin) cell of a valid row, for int(sqrt(n_sample)) bins
CellOfRow(r) ==
    LET bb == BBox(df_valid)
        k == ISqrt(n_sample)
    IN <<BinOf(r.x, bb.x_min, bb.x_max, k), BinOf(r.y, bb.y_min, bb.y_max, k)>>

\* the cells of the rows written, in the order they were picked
PickedCells == [i \in 1..Len(df_sample) |-> CellOfRow(df_sample[i])]

\* bin b of k equal-width bins over [mn, mx] holds v
InEqualWidthBin(v, mn, mx, k, b) ==
    /\ b \in 0..(k - 1)
    /\ mn < mx => /\ b * (mx - mn) <= k * (v - mn)
                  /\ k * (v - mn) <= (b + 1) * (mx - mn)

\* C14: under uniform the valid rows fall into int(sqrt(n)) equal-width bins
\* per axis; the rows written come from pairwise different cells, one from
\* every non-empty cell unless n rows were reached, never more than n; the
\* cells are visited x bin by x bin, the y bins in the same order inside
\* each x bin.
C14_UniformOnePerCellXMajor ==
    UniformWrite =>
        LET k == ISqrt(n_sample)
            bb == BBox(df_valid)
            pc_ == PickedCells
            m == Len(df_sample)
        IN /\ k >= 1
           /\ \A r \in Range(df_valid) :
                 /\ InEqualWidthBin(r.x, bb.x_min, bb.x_max, k, CellOfRow(r)[1])
                 /\ InEqualWidthBin(r.y, bb.y_min, bb.y_max, k, CellOfRow(r)[2])
           /\ \A i \in 1..m : df_sample[i] \in Range(df_valid)
           /\ IsInjective(pc_)
           /\ m <= n_sample
           /\ m < n_sample => \A r \in Range(df_valid) : CellOfRow(r) \in Range(pc_)
           /\ \A i, j, l \in 1..m :
                 (i < j /\ j < l /\ pc_[i][1] = pc_[l][1]) => pc_[j][1] = pc_[i][1]
           /\ \A i, j, i2, j2 \in 1..m :
                 (i < j /\ i2 < j2 /\ pc_[i][1] = pc_[j][1] /\ pc_[i2][1] = pc_[j2][1])
                     => ~(pc_[i][2] = pc_[j2][2] /\ pc_[j][2] = pc_[i2][2])

\* three rows written from a 2 x 2 binning: two y bins of the first x bin,
\* then the other x bin
C14_Witness ==
    /\ UniformWrite /\ ISqrt(n_sample) = 2 /\ Len(df_sample) = 3
    /\ PickedCells[1][1] = PickedCells[2][1]
    /\ PickedCells[1][2] # PickedCells[2][2]
    /\ PickedCells[3][1] # PickedCells[1][1]

\* the lhs branch has run on the snapshot read last: it wrote or it raised
LhsActed == sample_strategy = "lhs" /\ last \in {"write", "error"}

\* the deduplicated matches are valid positions, in ascending order, and
\* there are at most n of them, so that unique_indices[:n] is unique_indices
LhsUniqueWithinTarget ==
    /\ Len(unique_indices) <= n_sample
    /\ \A i \in 1..Len(unique_indices) : unique_indices[i] \in 0..(Len(df_valid) - 1)
    /\ \A i, j \in 1..Len(unique_indices) : i < j => unique_indices[i] < unique_indices[j]
    /\ Len(unique_indices) = n_sample => last = "write" /\ final_indices = unique_indices

\* final_indices is unique_indices followed by n - len(unique_indices)
\* different positions of valid rows that are not in unique_indices
LhsBackfilled ==
    /\ last = "write"
    /\ Len(final_indices) = n_sample
    /\ SubSeq(final_indices, 1, Len(unique_indices)) = unique_indices
    /\ \A i \in (Len(unique_indices) + 1)..Len(final_indices) :
          /\ final_indices[i] \in 0..(Len(df_valid) - 1)
          /\ \A j \in 1..Len(final_indices) : j # i => final_indices[j] # final_indices[i]

\* C15 (as claimed): under lhs the unique matches never exceed n and the
\* truncation removes nothing; whenever there are fewer than n of them,
\* exactly n minus their number are backfilled from the valid rows not yet
\* selected.  Violated by the code when n exceeds the number of valid rows.
C15_LhsBackfillAlwaysCompletes ==
    LhsActed =>
        /\ LhsUniqueWithinTarget
        /\ Len(unique_indices) < n_sample => LhsBackfilled

\* the names of the snapshots the generator wrote
GeneratedNames == {f.name : f \in CsvFiles}

\* the sampler was called on the generator's directory and has listed it
SamplerListed == sc_pc \in {"done", "raised"} /\ pc \notin {"idle", "init"}

\* the observation time of the generated snapshot of a name
TimeOnDisk(name) == (CHOOSE f \in CsvFiles : f.name = name).time

\* C16 (as claimed): every snapshot the generator wrote for an observation
\* time passes the sampler's name filter, its time parses without error, the
\* sampler takes all of them and in ascending order of observation time.
\* Violated by the code for a time that is a float.
C16_GeneratedSnapshotsAccepted ==
    SamplerListed =>
        /\ \A n \in GeneratedNames : NameFilter(n) /\ SortKey(n).ok
        /\ raised = "none"
        /\ Range(csv_files) = GeneratedNames
        /\ \A i, j \in 1..Len(csv_files) :
              i < j => TimeOnDisk(csv_files[i]) < TimeOnDisk(csv_files[j])

====
